---- MODULE Spec2Model ----
(***************************************************************************)
(* KlayGE scene graph: SceneNode (Core/Src/Scene/SceneNode.cpp).           *)
(*                                                                         *)
(* Every SceneNode field is a variable indexed by node id.  A handler of   *)
(* the class is an operator from heap to heap (a record of all the fields) *)
(* named as in the source; the action that calls it commits the resulting  *)
(* heap.  Handlers compose the way the C++ methods call each other.        *)
(*                                                                         *)
(* Matrices and boxes are one-dimensional: a matrix is the affine map      *)
(* x |-> x*s + t (row-vector convention, as float4x4), a box an interval.  *)
(***************************************************************************)
EXTENDS Integers, Sequences, FiniteSets, TLC

VARIABLES
    num_nodes,                  \* number of SceneNode objects constructed; ids are 1..num_nodes
    name_,                      \* SceneNode::name_
    attrib_,                    \* SceneNode::attrib_
    parent_,                    \* SceneNode::parent_ (Null: nullptr)
    children_,                  \* SceneNode::children_
    renderables_,               \* SceneNode::renderables_
    renderables_hw_res_ready_,  \* SceneNode::renderables_hw_res_ready_
    model_,                     \* SceneNode::model_
    abs_model_,                 \* SceneNode::abs_model_
    pos_aabb_os_,               \* SceneNode::pos_aabb_os_ (<<>>: null unique_ptr, <<b>>: box b)
    pos_aabb_ws_,               \* SceneNode::pos_aabb_ws_
    pos_aabb_dirty_,            \* SceneNode::pos_aabb_dirty_
    rend_model,                 \* Renderable: matrix last given to Renderable::ModelMatrix
    rend_pass,                  \* Renderable: pass type last given to Renderable::Pass
    scene_nodes_,               \* SceneManager::scene_nodes_
    hw_ready,                   \* Renderable: what Renderable::HWResourceReady() answers
    status,                     \* "ok", or how the process ended
    ret,                        \* boolean returned by the last call
    ret_ptr,                    \* node or drawable returned by the last call
    ret_nodes,                  \* std::vector<SceneNode*> returned by the last call
    propagated,                 \* nodes updated top-down since they or an ancestor last changed
    sub_thread_update_func_,    \* SceneNode::sub_thread_update_func_ (TRUE: a callback is bound)
    visible_mark_,              \* SceneNode::visible_mark_
    frame_state,                \* SceneManager: the state of the frame Update() is in
    suspended,                  \* SceneManager: Suspend() returned and Resume() was not called
    update_mutex_,              \* SceneManager::update_mutex_: "free" or the thread that holds it
    quit_,                      \* SceneManager::quit_
    update_thread_,             \* update thread: "wait" (blocked on its wait condition) or "tick"
    tick_pending,               \* update thread: nodes its tick has still to update
    running,                    \* update thread: node whose background callback executes
    frustum_,                   \* SceneManager::frustum_ of the culling pass
    bound_tests,                \* bound tests of the culling pass, per node
    render_queue_,              \* SceneManager::render_queue_
    submitted                   \* Renderer: the buckets the last flush handed over

vars == <<num_nodes, name_, attrib_, parent_, children_, renderables_, renderables_hw_res_ready_,
          model_, abs_model_, pos_aabb_os_, pos_aabb_ws_, pos_aabb_dirty_, rend_model,
          rend_pass, scene_nodes_, hw_ready, status, ret, ret_ptr, ret_nodes, propagated,
          sub_thread_update_func_, visible_mark_, frame_state, suspended, update_mutex_, quit_,
          update_thread_, tick_pending, running, frustum_, bound_tests, render_queue_, submitted>>

\* the fields of the nodes and drawables, and what the last call returned
node_vars == <<num_nodes, name_, attrib_, parent_, children_, renderables_,
               renderables_hw_res_ready_, model_, abs_model_, pos_aabb_os_, pos_aabb_ws_,
               pos_aabb_dirty_, rend_model, rend_pass, scene_nodes_, hw_ready, status, ret,
               ret_ptr, ret_nodes, propagated>>

\* the state of the scene manager, its update thread and the per-node state they own
manager_vars == <<sub_thread_update_func_, visible_mark_, frame_state, suspended, update_mutex_,
                  quit_, update_thread_, tick_pending, running, frustum_, bound_tests, render_queue_, submitted>>

(***************************************************************************)
(* Bounds of the model.                                                    *)
(***************************************************************************)
MaxNodes == 5          \* size of the pool of node ids
MaxTreeNodes == 3      \* nodes of the scenarios that link nodes freely
MaxBoundNodes == 2     \* nodes of the scenarios that recompute bounds or query nodes
MaxChildren == 3       \* longest child list AddChild builds
MaxSiblings == 2       \* longest child list of the scenario that links nodes in any way
MaxFindNodes == 4      \* nodes of the scenario that searches trees by name
MaxRenderables == 2    \* longest drawable list AddRenderable builds

Null == 0
NodeIds == 1..MaxNodes

(***************************************************************************)
(* SOAttrib                                                                *)
(***************************************************************************)
SOA_Cullable == 1
SOA_Overlay == 2
SOA_Moveable == 4
SOA_Invisible == 8
SOA_NotCastShadow == 16
SOA_SSS == 32

\* attrib & bit
HasAttrib(attrib, bit) == (attrib \div bit) % 2 = 1

(***************************************************************************)
(* Math: float4x4 and AABBox in one dimension.                             *)
(***************************************************************************)
Mat(s, t) == [s |-> s, t |-> t]
Identity == Mat(1, 0)
Scale2 == Mat(2, 0)
Shift1 == Mat(1, 1)
Mirror == Mat(-1, 0)

\* a * b: x |-> (x * a.s + a.t) * b.s + b.t
Mul(a, b) == Mat(a.s * b.s, a.t * b.s + b.t)

Box(lo, hi) == [lo |-> lo, hi |-> hi]
Min2(x, y) == IF x <= y THEN x ELSE y
Max2(x, y) == IF x >= y THEN x ELSE y

\* a |= b
BoxUnion(a, b) == Box(Min2(a.lo, b.lo), Max2(a.hi, b.hi))

\* MathLib::transform_aabb: the box of the transformed corners
transform_aabb(b, m) ==
    Box(Min2(b.lo * m.s + m.t, b.hi * m.s + m.t), Max2(b.lo * m.s + m.t, b.hi * m.s + m.t))

BoxEncloses(a, b) == a.lo <= b.lo /\ b.hi <= a.hi

(***************************************************************************)
(* Renderable: the drawables of the scenarios.  Drawable 1 is a model of   *)
(* two meshes (2 and 3), drawable 4 a model of one mesh (3).               *)
(***************************************************************************)
RenderableIds == {1, 2, 3, 4}

\* Renderable::NumSubrenderables / Renderable::Subrenderable
Subrenderables(r) ==
    CASE r = 1 -> <<2, 3>>
      [] r = 4 -> <<3>>
      [] OTHER -> <<>>
NumSubrenderables(r) == Len(Subrenderables(r))
Subrenderable(r, i) == Subrenderables(r)[i + 1]

\* Renderable::PosBound
PosBound(r) ==
    CASE r = 1 -> Box(-1, 2)
      [] r = 2 -> Box(-1, 1)
      [] r = 3 -> Box(0, 2)
      [] OTHER -> Box(0, 2)

\* What a read of memory that holds no object gives: a process fault, or some value.
Read(fault, val) == [fault |-> fault, val |-> val]
\* the read faults; val is what an uninitialised object of the call holds
Segv(val) == Read(TRUE, val)

(***************************************************************************)
(* The heap: the fields of all objects, as the handlers read and write it, *)
(* and what one call did: the nodes UpdateAbsModelMatrix ran on (updated)  *)
(* and how often each node's local bound was recomputed (recomputed).      *)
(***************************************************************************)
Heap ==
    [n |-> num_nodes, name |-> name_, attrib |-> attrib_, parent |-> parent_, children |-> children_,
     rend |-> renderables_, ready |-> renderables_hw_res_ready_, model |-> model_,
     abs |-> abs_model_, os |-> pos_aabb_os_, ws |-> pos_aabb_ws_, dirty |-> pos_aabb_dirty_,
     rmodel |-> rend_model, rpass |-> rend_pass, scene |-> scene_nodes_, status |-> "ok",
     ret |-> FALSE,
     ret_ptr |-> Null,
     ret_nodes |-> <<>>,
     updated |-> {}, recomputed |-> [n \in NodeIds |-> 0]]

Ok(h) == h.status = "ok"
Fail(h, how) == IF Ok(h) THEN [h EXCEPT !.status = how] ELSE h

\* index (1-based) of the first element of s equal to x, 0 when there is none: std::find
Find(s, x) ==
    IF \E i \in 1..Len(s) : s[i] = x
    THEN CHOOSE i \in 1..Len(s) : s[i] = x /\ \A j \in 1..(i - 1) : s[j] # x
    ELSE 0

\* s without its element at index i: std::vector::erase
Erase(s, i) == [j \in 1..(Len(s) - 1) |-> IF j < i THEN s[j] ELSE s[j + 1]]

\* SceneNode::SceneNode(uint32_t attrib) constructor test for the bound boxes
TracksBound(attrib) ==
    ~HasAttrib(attrib, SOA_Overlay)
    /\ (HasAttrib(attrib, SOA_Cullable) \/ HasAttrib(attrib, SOA_Moveable))

(***************************************************************************)
(* Construction and sub-node expansion.                                    *)
(***************************************************************************)
\* SceneNode::SceneNode(uint32_t attrib).  The new node's id is h.n + 1.  g is what a
\* default-constructed AABBox holds (g.val).  "pool" marks that the model ran out of node ids.
SceneNode(h, attrib, g) ==
    IF ~Ok(h) THEN h
    ELSE IF h.n >= MaxNodes THEN Fail(h, "pool")
    ELSE LET id == h.n + 1 IN
         [h EXCEPT !.n = id,
                   !.name[id] = "",
                   !.attrib[id] = attrib,
                   !.parent[id] = Null,
                   !.model[id] = Identity,
                   !.abs[id] = Identity,
                   !.dirty[id] = TRUE,
                   !.os[id] = IF TracksBound(attrib) THEN <<g.val>> ELSE <<>>,
                   !.ws[id] = IF TracksBound(attrib) THEN <<g.val>> ELSE <<>>]

\* SceneNode::SceneNode(std::wstring_view name, uint32_t attrib)
SceneNodeNamed(h, name, attrib, g) ==
    LET h1 == SceneNode(h, attrib, g) IN
    IF ~Ok(h1) THEN h1 ELSE [h1 EXCEPT !.name[h.n + 1] = name]

\* SceneNode::Name(std::wstring_view name)
SetName(h, n, name) == IF ~Ok(h) THEN h ELSE [h EXCEPT !.name[n] = name]

\* SceneNode::AddRenderable
AddRenderable(h, n, renderable) ==
    IF ~Ok(h) THEN h
    ELSE [h EXCEPT !.rend[n] = Append(@, renderable),
                   !.ready[n] = Append(@, FALSE),
                   !.dirty[n] = TRUE]

\* SceneNode::Parent(SceneNode* so)
SetParent(h, n, so) == IF ~Ok(h) THEN h ELSE [h EXCEPT !.parent[n] = so]

\* SceneManager::AddSceneNodeLocked: the registry keeps insertion order
AddSceneNodeLocked(h, n) == IF ~Ok(h) THEN h ELSE [h EXCEPT !.scene = Append(@, n)]

RECURSIVE AddToSceneManagerLocked(_, _)
RECURSIVE AddChildrenToSceneManagerLocked(_, _, _)
\* the loop of SceneNode::AddToSceneManagerLocked over children_, from index k
AddChildrenToSceneManagerLocked(h, n, k) ==
    IF ~Ok(h) \/ k > Len(h.children[n]) THEN h
    ELSE AddChildrenToSceneManagerLocked(AddToSceneManagerLocked(h, h.children[n][k]), n, k + 1)

\* SceneNode::AddToSceneManagerLocked
AddToSceneManagerLocked(h, n) ==
    AddChildrenToSceneManagerLocked(AddSceneNodeLocked(h, n), n, 1)

RECURSIVE SceneNodeRenderable(_, _, _, _)
RECURSIVE OnAttachRenderable(_, _, _, _)
RECURSIVE AttachSubrenderables(_, _, _, _, _, _, _)
RECURSIVE AttachRenderables(_, _, _, _, _)

\* SceneNode::SceneNode(RenderablePtr const & renderable, uint32_t attrib)
SceneNodeRenderable(h, renderable, attrib, g) ==
    LET h1 == SceneNode(h, attrib, g)
        id == h.n + 1
    IN IF ~Ok(h1) THEN h1
       ELSE OnAttachRenderable(AddRenderable(h1, id, renderable), id, FALSE, g)

\* the inner loop of OnAttachRenderable without child->Parent(this)
AttachSubrenderables_NoParent(h, n, renderable, base, i, add_to_scene, g) ==
    IF ~Ok(h) \/ i >= NumSubrenderables(renderable) THEN h
    ELSE LET child == h.n + 1
             h1 == SceneNodeRenderable(h, Subrenderable(renderable, i), h.attrib[n], g)
             h3 == IF Ok(h1) THEN [h1 EXCEPT !.children[n][base + i + 1] = child] ELSE h1
             h4 == IF add_to_scene THEN AddToSceneManagerLocked(h3, child) ELSE h3
         IN AttachSubrenderables(h4, n, renderable, base, i + 1, add_to_scene, g)

\* the inner loop of OnAttachRenderable: sub-drawables i .. of renderable, children_ slots from base
AttachSubrenderables(h, n, renderable, base, i, add_to_scene, g) ==
    IF ~Ok(h) \/ i >= NumSubrenderables(renderable) THEN h
    ELSE LET child == h.n + 1
             h1 == SceneNodeRenderable(h, Subrenderable(renderable, i), h.attrib[n], g)
             h2 == SetParent(h1, child, n)
             h3 == IF Ok(h2) THEN [h2 EXCEPT !.children[n][base + i + 1] = child] ELSE h2
             h4 == IF add_to_scene THEN AddToSceneManagerLocked(h3, child) ELSE h3
         IN AttachSubrenderables(h4, n, renderable, base, i + 1, add_to_scene, g)

\* the outer loop of OnAttachRenderable: renderables_ from index k
AttachRenderables(h, n, k, add_to_scene, g) ==
    IF ~Ok(h) \/ k > Len(h.rend[n]) THEN h
    ELSE LET renderable == h.rend[n][k] IN
         IF renderable # Null /\ NumSubrenderables(renderable) > 0
         THEN LET base == Len(h.children[n])
                  \* children_.resize(base + NumSubrenderables()): null slots
                  h1 == [h EXCEPT !.children[n] =
                             @ \o [j \in 1..NumSubrenderables(renderable) |-> Null]]
              IN AttachRenderables(
                     AttachSubrenderables(h1, n, renderable, base, 0, add_to_scene, g),
                     n, k + 1, add_to_scene, g)
         ELSE AttachRenderables(h, n, k + 1, add_to_scene, g)

\* SceneNode::OnAttachRenderable
OnAttachRenderable(h, n, add_to_scene, g) == AttachRenderables(h, n, 1, add_to_scene, g)

(***************************************************************************)
(* Child list and drawable list.                                           *)
(***************************************************************************)
\* SceneNode::AddChild
AddChild(h, n, node) ==
    IF ~Ok(h) THEN h
    ELSE [h EXCEPT !.dirty[n] = TRUE, !.children[n] = Append(@, node)]

\* RemoveChild that marks the bound dirty whether or not the node is found
RemoveChild_Unchecked(h, n, node) ==
    LET iter == Find(h.children[n], node) IN
    IF ~Ok(h) THEN h
    ELSE IF iter = 0 THEN [h EXCEPT !.dirty[n] = TRUE]
    ELSE [h EXCEPT !.dirty[n] = TRUE, !.children[n] = Erase(@, iter)]

\* SceneNode::RemoveChild
RemoveChild(h, n, node) ==
    LET iter == Find(h.children[n], node) IN
    IF ~Ok(h) \/ iter = 0 THEN h
    ELSE [h EXCEPT !.dirty[n] = TRUE, !.children[n] = Erase(@, iter)]

\* SceneNode::ClearChildren
ClearChildren(h, n) ==
    IF ~Ok(h) THEN h
    ELSE [h EXCEPT !.dirty[n] = TRUE, !.children[n] = <<>>]

\* SceneNode::DelRenderable.  The flag's index is iter - renderables_.begin(), computed
\* after renderables_.erase(iter) has invalidated iter.  asserts: the build checks
\* iterators and ends the process there; otherwise the index is the one the drawable had.
DelRenderable(h, n, renderable, asserts) ==
    LET iter == Find(h.rend[n], renderable) IN
    IF ~Ok(h) \/ iter = 0 THEN h
    ELSE IF asserts THEN Fail(h, "abort")
    ELSE [h EXCEPT !.rend[n] = Erase(@, iter),
                   !.ready[n] = Erase(@, iter),
                   !.dirty[n] = TRUE]

\* SceneNode::ModelMatrix(float4x4 const & mat)
SetModelMatrix(h, n, mat) == IF ~Ok(h) THEN h ELSE [h EXCEPT !.model[n] = mat]

\* SceneNode::ModelMatrix() const
ModelMatrix(h, n) == h.model[n]

\* SceneNode::GetChildNode: BOOST_ASSERT(i < children_.size()); return children_[i].
\* asserts: the build keeps BOOST_ASSERT.  v is what the read gives when slot i holds no
\* element.
GetChildNode(h, n, i, asserts, v) ==
    IF ~Ok(h) THEN h
    ELSE IF i < Len(h.children[n]) THEN [h EXCEPT !.ret_ptr = h.children[n][i + 1]]
    ELSE IF asserts THEN Fail(h, "out_of_bounds")
    ELSE IF v.fault THEN Fail(h, "segv")
    ELSE [h EXCEPT !.ret_ptr = v.val]

\* SceneNode::GetRenderable(uint32_t i): renderables_[i], unchecked.  v is what the read
\* gives when slot i holds no element.
GetRenderable(h, n, i, v) ==
    IF ~Ok(h) THEN h
    ELSE IF i < Len(h.rend[n]) THEN [h EXCEPT !.ret_ptr = h.rend[n][i + 1]]
    ELSE IF v.fault THEN Fail(h, "segv")
    ELSE [h EXCEPT !.ret_ptr = v.val]

\* SceneNode::GetRenderable()
GetRenderable0(h, n, v) == GetRenderable(h, n, 0, v)

(***************************************************************************)
(* World matrix and bounds.                                                *)
(***************************************************************************)
\* the instrumentation of a recomputation of n's local bound
CountRecompute(h, n) == [h EXCEPT !.recomputed[n] = @ + 1]

\* pos_aabb_dirty_ = false
ClearDirty(h, n) == [h EXCEPT !.dirty[n] = FALSE]

\* *pos_aabb_os_ = renderables_[0]->PosBound().  g is what the read of renderables_[0]
\* gives on an empty list; a null drawable is dereferenced.
FirstPosBound(h, n, g) ==
    IF ~Ok(h) THEN h
    ELSE IF Len(h.rend[n]) = 0
         THEN IF g.fault THEN Fail(h, "segv") ELSE [h EXCEPT !.os[n] = <<g.val>>]
    ELSE IF h.rend[n][1] = Null THEN Fail(h, "segv")
    ELSE [h EXCEPT !.os[n] = <<PosBound(h.rend[n][1])>>]

RECURSIVE UnionRenderables(_, _, _)
\* for (i = 1; i < renderables_.size(); ++ i) *pos_aabb_os_ |= renderables_[i]->PosBound(),
\* from 1-based index k
UnionRenderables(h, n, k) ==
    IF ~Ok(h) \/ k > Len(h.rend[n]) THEN h
    ELSE IF h.rend[n][k] = Null THEN Fail(h, "segv")
    ELSE UnionRenderables(
             [h EXCEPT !.os[n] = <<BoxUnion(@[1], PosBound(h.rend[n][k]))>>], n, k + 1)

RECURSIVE UpdatePosBoundFrom(_, _, _, _)
RECURSIVE UnionChildren(_, _, _, _, _)

\* the loop of UpdatePosBound over children_, from 1-based index k.  stack: the nodes whose
\* UpdatePosBound is running.
UnionChildren(h, n, k, stack, g) ==
    IF ~Ok(h) \/ k > Len(h.children[n]) THEN h
    ELSE LET child == h.children[n][k] IN
         IF child = Null THEN Fail(h, "segv")
         ELSE IF h.os[child] # <<>>
         THEN LET h1 == UpdatePosBoundFrom(h, child, stack, g)
                  h2 == IF Ok(h1)
                        THEN [h1 EXCEPT !.os[n] = <<BoxUnion(@[1], h1.os[child][1])>>]
                        ELSE h1
              IN UnionChildren(h2, n, k + 1, stack, g)
         ELSE UnionChildren(h, n, k + 1, stack, g)

\* SceneNode::UpdatePosBound, called with `stack` running.  A node that is reached again
\* while its own call runs is still dirty: the recursion does not end.
UpdatePosBoundFrom(h, n, stack, g) ==
    IF ~Ok(h) THEN h
    ELSE IF ~h.dirty[n] THEN h
    ELSE IF n \in stack THEN Fail(h, "stack_overflow")
    ELSE IF h.os[n] # <<>>
         THEN ClearDirty(
                  UnionChildren(
                      UnionRenderables(FirstPosBound(CountRecompute(h, n), n, g), n, 2),
                      n, 1, stack \cup {n}, g),
                  n)
    ELSE ClearDirty(h, n)

\* SceneNode::UpdatePosBound
UpdatePosBound(h, n, g) == UpdatePosBoundFrom(h, n, {}, g)

\* abs_model_ of UpdateAbsModelMatrix: parent_->ModelMatrix() * model_, or model_
AbsModelMatrixOf(h, n) ==
    IF h.parent[n] # Null
    THEN Mul(ModelMatrix(h, h.parent[n]), h.model[n])
    ELSE h.model[n]

RECURSIVE SetRenderablesModelMatrix(_, _, _)
\* for (renderable : renderables_) renderable->ModelMatrix(abs_model_), from 1-based index k
SetRenderablesModelMatrix(h, n, k) ==
    IF ~Ok(h) \/ k > Len(h.rend[n]) THEN h
    ELSE IF h.rend[n][k] = Null THEN Fail(h, "segv")
    ELSE SetRenderablesModelMatrix(
             [h EXCEPT !.rmodel[h.rend[n][k]] = h.abs[n]], n, k + 1)

\* SceneNode::UpdateAbsModelMatrix
UpdateAbsModelMatrix(h, n, g) ==
    IF ~Ok(h) THEN h
    ELSE LET h1 == [h EXCEPT !.abs[n] = AbsModelMatrixOf(h, n),
                             !.updated = @ \cup {n}]
         IN IF Len(h1.rend[n]) # 0
            THEN LET h2 == IF h1.ws[n] # <<>>
                           THEN LET h3 == UpdatePosBound(h1, n, g) IN
                                IF Ok(h3)
                                THEN [h3 EXCEPT !.ws[n] =
                                          <<transform_aabb(h3.os[n][1], h3.abs[n])>>]
                                ELSE h3
                           ELSE h1
                 IN SetRenderablesModelMatrix(h2, n, 1)
            ELSE h1

RECURSIVE MarkReady_Again(_, _, _, _)
\* the loop of MainThreadUpdate without the test of the ready flag
MarkReady_Again(h, n, k, hw) ==
    IF ~Ok(h) \/ k > Len(h.rend[n]) THEN h
    ELSE IF h.rend[n][k] # Null /\ hw[h.rend[n][k]]
         THEN MarkReady_Again([h EXCEPT !.ready[n][k] = TRUE, !.ret = TRUE], n, k + 1, hw)
    ELSE MarkReady_Again(h, n, k + 1, hw)

RECURSIVE MarkReady(_, _, _, _)
\* the loop of MainThreadUpdate over renderables_, from 1-based index k; hw: HWResourceReady()
MarkReady(h, n, k, hw) ==
    IF ~Ok(h) \/ k > Len(h.rend[n]) THEN h
    ELSE IF h.rend[n][k] # Null /\ ~h.ready[n][k] /\ hw[h.rend[n][k]]
         THEN MarkReady([h EXCEPT !.ready[n][k] = TRUE, !.ret = TRUE], n, k + 1, hw)
    ELSE MarkReady(h, n, k + 1, hw)

\* SceneNode::MainThreadUpdate; ret is `refreshed`.  No main_thread_update_func_ is bound.
MainThreadUpdate(h, n, hw, g) ==
    IF ~Ok(h) THEN h
    ELSE LET h1 == MarkReady([h EXCEPT !.ret = FALSE], n, 1, hw) IN
         IF h1.ret
         THEN UpdateAbsModelMatrix(OnAttachRenderable(h1, n, FALSE, g), n, g)
         ELSE h1

(***************************************************************************)
(* Per-drawable queries.                                                   *)
(***************************************************************************)
Queries == {"SelectMode", "TransparencyBackFace", "TransparencyFrontFace", "SSS",
            "Reflection", "SimpleForward", "VDM"}

\* Renderable::SelectMode() .. Renderable::VDM(): drawable 2 is a transparent, reflecting
\* mesh; no drawable is in select mode.
RenderableFlag(r, q) == q # "SelectMode" /\ r = 2

\* if (renderables_[0]) return renderables_[0]->q(); else return false;
\* v is what the read of renderables_[0] gives on an empty list.
FirstRenderableFlag(h, n, q, v) ==
    IF ~Ok(h) THEN h
    ELSE IF Len(h.rend[n]) = 0
         THEN IF v.fault THEN Fail(h, "segv") ELSE [h EXCEPT !.ret = v.val]
    ELSE IF h.rend[n][1] # Null THEN [h EXCEPT !.ret = RenderableFlag(h.rend[n][1], q)]
    ELSE [h EXCEPT !.ret = FALSE]

SelectMode(h, n, v) == FirstRenderableFlag(h, n, "SelectMode", v)
TransparencyBackFace(h, n, v) == FirstRenderableFlag(h, n, "TransparencyBackFace", v)
TransparencyFrontFace(h, n, v) == FirstRenderableFlag(h, n, "TransparencyFrontFace", v)
SSS(h, n, v) == FirstRenderableFlag(h, n, "SSS", v)
Reflection(h, n, v) == FirstRenderableFlag(h, n, "Reflection", v)
SimpleForward(h, n, v) == FirstRenderableFlag(h, n, "SimpleForward", v)
VDM(h, n, v) == FirstRenderableFlag(h, n, "VDM", v)

Query(h, n, q, v) ==
    CASE q = "SelectMode" -> SelectMode(h, n, v)
      [] q = "TransparencyBackFace" -> TransparencyBackFace(h, n, v)
      [] q = "TransparencyFrontFace" -> TransparencyFrontFace(h, n, v)
      [] q = "SSS" -> SSS(h, n, v)
      [] q = "Reflection" -> Reflection(h, n, v)
      [] q = "SimpleForward" -> SimpleForward(h, n, v)
      [] q = "VDM" -> VDM(h, n, v)

(***************************************************************************)
(* Traversal.                                                              *)
(***************************************************************************)
RECURSIVE IsNodeInSubTreeFrom(_, _, _, _)
RECURSIVE IsNodeInChildren(_, _, _, _, _)

\* the loop of IsNodeInSubTree over children_, from 1-based index k
IsNodeInChildren(h, n, node, k, stack) ==
    IF ~Ok(h) THEN h
    ELSE IF k > Len(h.children[n]) THEN [h EXCEPT !.ret = FALSE]
    ELSE IF h.children[n][k] = Null THEN Fail(h, "segv")
    ELSE LET h1 == IsNodeInSubTreeFrom(h, h.children[n][k], node, stack) IN
         IF Ok(h1) /\ h1.ret THEN h1
         ELSE IsNodeInChildren(h1, n, node, k + 1, stack)

\* SceneNode::IsNodeInSubTree, called with `stack` running.  A node that is reached again
\* while its own call runs repeats the same descent: the recursion does not end.
IsNodeInSubTreeFrom(h, n, node, stack) ==
    IF ~Ok(h) THEN h
    ELSE IF node = n THEN [h EXCEPT !.ret = TRUE]
    ELSE IF n \in stack THEN Fail(h, "stack_overflow")
    ELSE IsNodeInChildren(h, n, node, 1, stack \cup {n})

\* SceneNode::IsNodeInSubTree
IsNodeInSubTree(h, n, node) == IsNodeInSubTreeFrom(h, n, node, {})

RECURSIVE FindFirstNodeFrom(_, _, _, _)
RECURSIVE FindFirstNodeInChildren(_, _, _, _, _)

RECURSIVE FindFirstNodeInChildren_NoBreak(_, _, _, _, _)
\* the loop of FindFirstNode without its break: the last child's result is kept
FindFirstNodeInChildren_NoBreak(h, n, name, k, stack) ==
    IF ~Ok(h) \/ k > Len(h.children[n]) THEN h
    ELSE IF h.children[n][k] = Null THEN Fail(h, "segv")
    ELSE FindFirstNodeInChildren_NoBreak(
             FindFirstNodeFrom(h, h.children[n][k], name, stack), n, name, k + 1, stack)

\* the loop of FindFirstNode over children_, from 1-based index k: stops at the first
\* child whose call returns a node
FindFirstNodeInChildren(h, n, name, k, stack) ==
    IF ~Ok(h) \/ k > Len(h.children[n]) THEN h
    ELSE IF h.children[n][k] = Null THEN Fail(h, "segv")
    ELSE LET h1 == FindFirstNodeFrom(h, h.children[n][k], name, stack) IN
         IF Ok(h1) /\ h1.ret_ptr # Null THEN h1
         ELSE FindFirstNodeInChildren(h1, n, name, k + 1, stack)

\* SceneNode::FindFirstNode, called with `stack` running; ret_ptr is `ret`
FindFirstNodeFrom(h, n, name, stack) ==
    IF ~Ok(h) THEN h
    ELSE IF h.name[n] = name THEN [h EXCEPT !.ret_ptr = n]
    ELSE IF n \in stack THEN Fail(h, "stack_overflow")
    ELSE FindFirstNodeInChildren([h EXCEPT !.ret_ptr = Null], n, name, 1, stack \cup {n})

\* SceneNode::FindFirstNode
FindFirstNode(h, n, name) == FindFirstNodeFrom(h, n, name, {})

RECURSIVE FindAllNodeInto(_, _, _, _)
RECURSIVE FindAllNodeInChildren(_, _, _, _, _)

\* the loop of FindAllNode(nodes, name) over children_, from 1-based index k
FindAllNodeInChildren(h, n, name, k, stack) ==
    IF ~Ok(h) \/ k > Len(h.children[n]) THEN h
    ELSE IF h.children[n][k] = Null THEN Fail(h, "segv")
    ELSE FindAllNodeInChildren(
             FindAllNodeInto(h, h.children[n][k], name, stack), n, name, k + 1, stack)

\* FindAllNode(nodes, name) pushing this after its children's matches
FindAllNodeInto_PostOrder(h, n, name, stack) ==
    IF ~Ok(h) THEN h
    ELSE IF n \in stack THEN Fail(h, "stack_overflow")
    ELSE LET h1 == FindAllNodeInChildren(h, n, name, 1, stack \cup {n}) IN
         IF Ok(h1) /\ h1.name[n] = name THEN [h1 EXCEPT !.ret_nodes = Append(@, n)] ELSE h1

\* SceneNode::FindAllNode(std::vector<SceneNode*>& nodes, name); ret_nodes is `nodes`
FindAllNodeInto(h, n, name, stack) ==
    IF ~Ok(h) THEN h
    ELSE IF n \in stack THEN Fail(h, "stack_overflow")
    ELSE FindAllNodeInChildren(
             IF h.name[n] = name THEN [h EXCEPT !.ret_nodes = Append(@, n)] ELSE h,
             n, name, 1, stack \cup {n})

\* SceneNode::FindAllNode(std::wstring_view name)
FindAllNode(h, n, name) == FindAllNodeInto([h EXCEPT !.ret_nodes = <<>>], n, name, {})

(***************************************************************************)
(* Propagation bookkeeping: which nodes hold a world matrix computed       *)
(* top-down (parent before child) since they or an ancestor last changed.  *)
(***************************************************************************)
RECURSIVE Up(_, _, _)
\* the k-th ancestor of m along parent_ (Null beyond the root)
Up(parent, m, k) == IF k = 0 \/ m = Null THEN m ELSE Up(parent, parent[m], k - 1)

IsStrictAncestor(parent, a, m) == \E k \in 1..MaxNodes : Up(parent, m, k) = a

PropagatedAfter(h) ==
    LET changed == {m \in 1..h.n : m > num_nodes \/ h.model[m] # model_[m]
                                   \/ h.parent[m] # parent_[m]}
        stale == changed \cup {m \in 1..h.n : \E a \in changed \cup h.updated :
                                   IsStrictAncestor(h.parent, a, m)}
        kept == propagated \ (stale \cup h.updated)
    IN kept \cup {m \in h.updated \ changed : h.parent[m] = Null \/ h.parent[m] \in kept}

(***************************************************************************)
(* State machine.                                                          *)
(***************************************************************************)
Init ==
    /\ num_nodes = 0
    /\ name_ = [n \in NodeIds |-> ""]
    /\ attrib_ = [n \in NodeIds |-> 0]
    /\ parent_ = [n \in NodeIds |-> Null]
    /\ children_ = [n \in NodeIds |-> <<>>]
    /\ renderables_ = [n \in NodeIds |-> <<>>]
    /\ renderables_hw_res_ready_ = [n \in NodeIds |-> <<>>]
    /\ model_ = [n \in NodeIds |-> Identity]
    /\ abs_model_ = [n \in NodeIds |-> Identity]
    /\ pos_aabb_os_ = [n \in NodeIds |-> <<>>]
    /\ pos_aabb_ws_ = [n \in NodeIds |-> <<>>]
    /\ pos_aabb_dirty_ = [n \in NodeIds |-> TRUE]
    /\ rend_model = [r \in RenderableIds |-> Identity]
    /\ rend_pass = [r \in RenderableIds |-> "none"]
    /\ scene_nodes_ = <<>>
    /\ hw_ready = [r \in RenderableIds |-> FALSE]
    /\ status = "ok"
    /\ ret = FALSE
    /\ ret_ptr = Null
    /\ ret_nodes = <<>>
    /\ propagated = {}
    /\ sub_thread_update_func_ = [n \in NodeIds |-> FALSE]
    /\ visible_mark_ = [n \in NodeIds |-> "BO_No"]
    /\ frame_state = "Idle"
    /\ suspended = FALSE
    /\ update_mutex_ = "free"
    /\ quit_ = FALSE
    /\ update_thread_ = "wait"
    /\ tick_pending = <<>>
    /\ running = Null
    /\ frustum_ = Box(0, 0)
    /\ bound_tests = [n \in NodeIds |-> 0]
    /\ render_queue_ = <<>>
    /\ submitted = <<>>

\* the fields of the nodes and drawables become those of heap h
Store(h) ==
    /\ status = "ok"
    /\ h.status # "pool"
    /\ num_nodes' = h.n
    /\ name_' = h.name
    /\ attrib_' = h.attrib
    /\ parent_' = h.parent
    /\ children_' = h.children
    /\ renderables_' = h.rend
    /\ renderables_hw_res_ready_' = h.ready
    /\ model_' = h.model
    /\ abs_model_' = h.abs
    /\ pos_aabb_os_' = h.os
    /\ pos_aabb_ws_' = h.ws
    /\ pos_aabb_dirty_' = h.dirty
    /\ rend_model' = h.rmodel
    /\ rend_pass' = h.rpass
    /\ scene_nodes_' = h.scene
    /\ status' = h.status
    /\ ret' = h.ret
    /\ ret_ptr' = h.ret_ptr
    /\ ret_nodes' = h.ret_nodes
    /\ propagated' = PropagatedAfter(h)
    /\ UNCHANGED hw_ready

\* a call returned (or ended the process) leaving heap h
Commit(h) == Store(h) /\ UNCHANGED manager_vars

Nodes == 1..num_nodes

NewNodeCall(attrib, g) == Commit(SceneNode(Heap, attrib, g))
NewNodeRenderableCall(renderable, attrib, g) ==
    Commit(SceneNodeRenderable(Heap, renderable, attrib, g))
ParentCall(n, so) == Commit(SetParent(Heap, n, so))
ModelMatrixCall(n, mat) == Commit(SetModelMatrix(Heap, n, mat))
AddChildCall(n, node) == Len(children_[n]) < MaxChildren /\ Commit(AddChild(Heap, n, node))
RemoveChildCall(n, node) == Commit(RemoveChild(Heap, n, node))
ClearChildrenCall(n) == Commit(ClearChildren(Heap, n))
AddRenderableCall(n, renderable) ==
    Len(renderables_[n]) < MaxRenderables /\ Commit(AddRenderable(Heap, n, renderable))
DelRenderableCall(n, renderable, asserts) ==
    Commit(DelRenderable(Heap, n, renderable, asserts))
OnAttachRenderableCall(n, add_to_scene, g) ==
    Commit(OnAttachRenderable(Heap, n, add_to_scene, g))
UpdateAbsModelMatrixCall(n, g) == Commit(UpdateAbsModelMatrix(Heap, n, g))
MainThreadUpdateCall(n, g) == Commit(MainThreadUpdate(Heap, n, hw_ready, g))
GetChildNodeCall(n, i, asserts, v) == Commit(GetChildNode(Heap, n, i, asserts, v))
GetRenderableCall(n, i, v) == Commit(GetRenderable(Heap, n, i, v))
GetRenderable0Call(n, v) == Commit(GetRenderable0(Heap, n, v))
QueryCall(n, q, v) == Commit(Query(Heap, n, q, v))
IsNodeInSubTreeCall(n, node) == Commit(IsNodeInSubTree(Heap, n, node))
NewNodeNamedCall(name, attrib, g) == Commit(SceneNodeNamed(Heap, name, attrib, g))
NameCall(n, name) == Commit(SetName(Heap, n, name))
FindFirstNodeCall(n, name) == Commit(FindFirstNode(Heap, n, name))
FindAllNodeCall(n, name) == Commit(FindAllNode(Heap, n, name))

\* a drawable's hardware resources finish loading: HWResourceReady() turns true
HWResourceLoaded(r) ==
    /\ status = "ok"
    /\ ~hw_ready[r]
    /\ hw_ready' = [hw_ready EXCEPT ![r] = TRUE]
    /\ UNCHANGED <<num_nodes, name_, attrib_, parent_, children_, renderables_,
                   renderables_hw_res_ready_, model_, abs_model_, pos_aabb_os_, pos_aabb_ws_,
                   pos_aabb_dirty_, rend_model, rend_pass, scene_nodes_, status, ret,
                   ret_ptr, ret_nodes, propagated>>
    /\ UNCHANGED manager_vars

(***************************************************************************)
(* Scenario: nodes linked into a forest by Parent() (each to an older node *)
(* or to none), local matrices set, world matrices updated in any order.   *)
(***************************************************************************)
Mats == {Identity, Scale2, Shift1}

NextMatrix ==
    \/ num_nodes < MaxTreeNodes /\ NewNodeCall(0, Segv(Box(0, 0)))
    \/ \E n \in Nodes : \E so \in 0..(n - 1) : ParentCall(n, so)
    \/ \E n \in Nodes, mat \in Mats : ModelMatrixCall(n, mat)
    \/ \E n \in Nodes : UpdateAbsModelMatrixCall(n, Segv(Box(0, 0)))

SpecMatrix == Init /\ [][NextMatrix]_vars

\* C1: after UpdateAbsModelMatrix has run top-down on the nodes of a tree, every node's
\* world matrix is its parent's world matrix times its local matrix, and a root's world
\* matrix is its local matrix.
C1_WorldIsParentWorldTimesLocal ==
    \A n \in propagated :
        abs_model_[n] = IF parent_[n] = Null
                        THEN model_[n]
                        ELSE Mul(abs_model_[parent_[n]], model_[n])

(***************************************************************************)
(* Scenario: nodes built around drawables, further drawables attached,     *)
(* hardware resources turning ready, main-thread updates.                  *)
(***************************************************************************)
NextExpand ==
    \/ \E renderable \in {1, 4} : NewNodeRenderableCall(renderable, SOA_Cullable, Segv(Box(0, 0)))
    \/ \E n \in Nodes, renderable \in {2, 4} :
           parent_[n] = Null /\ AddRenderableCall(n, renderable)
    \/ \E r \in {1, 2, 4} : HWResourceLoaded(r)
    \/ \E n \in Nodes : MainThreadUpdateCall(n, Segv(Box(0, 0)))

SpecExpand == Init /\ [][NextExpand]_vars

\* the children of n that wrap drawable sub
ChildrenWrapping(n, sub) ==
    {i \in 1..Len(children_[n]) :
        children_[n][i] # Null /\ renderables_[children_[n][i]] = <<sub>>}

\* the attached drawables of n that expose sub as a sub-drawable
DrawablesExposing(n, sub) ==
    {k \in 1..Len(renderables_[n]) :
        /\ renderables_[n][k] # Null
        /\ \E i \in 1..NumSubrenderables(renderables_[n][k]) :
               Subrenderables(renderables_[n][k])[i] = sub}

\* C2: a drawable is expanded once: a node never holds more children for a sub-drawable
\* than it has attached drawables exposing that sub-drawable, whether the node was built
\* by the drawable-taking constructor or the drawable turned ready in MainThreadUpdate.
C2_OneExpansionPerDrawable ==
    \A n \in Nodes : \A sub \in RenderableIds :
        Cardinality(ChildrenWrapping(n, sub)) <= Cardinality(DrawablesExposing(n, sub))

(***************************************************************************)
(* Scenario: a forest built with AddChild (a node is added to one older    *)
(* node, once), drawables attached and detached, sub-nodes expanded,       *)
(* world matrices and bounds updated in any order.                         *)
(***************************************************************************)
\* node is in some child list
IsChild(node) == \E m \in Nodes : \E i \in 1..Len(children_[m]) : children_[m][i] = node

\* what an AABBox holds before its first assignment, in this scenario
Unset == Box(-3, 3)

\* the reads UpdatePosBound may make of an empty drawable list in this scenario
BoundReads == {Segv(Unset), Read(FALSE, Unset)}

NextBound ==
    \/ \E attrib \in {SOA_Cullable, 0} :
           num_nodes < MaxBoundNodes /\ NewNodeCall(attrib, Segv(Unset))
    \/ \E n \in Nodes, node \in Nodes : n < node /\ ~IsChild(node) /\ AddChildCall(n, node)
    \/ \E n \in Nodes, node \in Nodes : RemoveChildCall(n, node)
    \/ \E n \in Nodes : ClearChildrenCall(n)
    \/ \E n \in Nodes, renderable \in {2, 4} : AddRenderableCall(n, renderable)
    \/ \E n \in Nodes, renderable \in {2, 4} : DelRenderableCall(n, renderable, FALSE)
    \/ \E n \in Nodes : OnAttachRenderableCall(n, FALSE, Segv(Unset))
                        /\ num_nodes' <= MaxBoundNodes
    \/ \E n \in Nodes, g \in BoundReads : UpdateAbsModelMatrixCall(n, g)

SpecBound == Init /\ [][NextBound]_vars

\* the children of n that track a bound
TrackedChildren(n) ==
    {children_[n][i] : i \in {j \in 1..Len(children_[n]) :
                                 children_[n][j] # Null /\ pos_aabb_os_[children_[n][j]] # <<>>}}

RECURSIVE SubtreeBoxes(_, _)
\* the local bounds of the drawables of n and of its bound-tracking descendants, d levels down
SubtreeBoxes(n, d) ==
    {PosBound(renderables_[n][k]) : k \in 1..Len(renderables_[n])}
    \cup (IF d = 0 THEN {} ELSE UNION {SubtreeBoxes(c, d - 1) : c \in TrackedChildren(n)})

\* the union of a non-empty set of boxes
UnionOf(boxes) ==
    Box(CHOOSE lo \in {b.lo : b \in boxes} : \A b \in boxes : lo <= b.lo,
        CHOOSE hi \in {b.hi : b \in boxes} : \A b \in boxes : b.hi <= hi)

\* C3: after UpdateAbsModelMatrix on a bound-tracking node, its local bound is the union of
\* the bounds of its own drawables and of its cullable descendants, and its world bound
\* is that union transformed by its world matrix.
C3_BoundIsUnionOfSubtree ==
    \A n \in Nodes : \A g \in BoundReads :
        LET h == UpdateAbsModelMatrix(Heap, n, g) IN
        (Ok(h) /\ pos_aabb_os_[n] # <<>> /\ SubtreeBoxes(n, MaxNodes) # {})
        => /\ h.os[n] = <<UnionOf(SubtreeBoxes(n, MaxNodes))>>
           /\ h.ws[n] = <<transform_aabb(UnionOf(SubtreeBoxes(n, MaxNodes)), h.abs[n])>>

\* C5: every call that changes a node's child list or drawable list leaves the node's
\* bound-dirty flag set: AddChild, RemoveChild of a present child, ClearChildren,
\* AddRenderable, DelRenderable of a present drawable, and OnAttachRenderable.
C5_ListChangeSetsDirty ==
    \A n \in Nodes :
        /\ \A node \in Nodes : AddChild(Heap, n, node).dirty[n]
        /\ \A node \in Nodes :
               Find(children_[n], node) # 0 => RemoveChild(Heap, n, node).dirty[n]
        /\ ClearChildren(Heap, n).dirty[n]
        /\ \A r \in RenderableIds : AddRenderable(Heap, n, r).dirty[n]
        /\ \A r \in RenderableIds :
               Find(renderables_[n], r) # 0 => DelRenderable(Heap, n, r, FALSE).dirty[n]
        /\ LET h == OnAttachRenderable(Heap, n, FALSE, Segv(Unset)) IN
           (Ok(h) /\ h.children[n] # children_[n]) => h.dirty[n]

(***************************************************************************)
(* Scenario: a forest of cullable nodes built with AddChild; drawables 2   *)
(* and 4 attached to a node once each, drawable 4 detached again; world    *)
(* matrices and bounds updated in any order.                               *)
(***************************************************************************)
NextDirty ==
    \/ num_nodes < MaxBoundNodes /\ NewNodeCall(SOA_Cullable, Segv(Unset))
    \/ \E n \in Nodes, node \in Nodes : n < node /\ ~IsChild(node) /\ AddChildCall(n, node)
    \/ \E n \in Nodes, renderable \in {2, 4} :
           Find(renderables_[n], renderable) = 0 /\ AddRenderableCall(n, renderable)
    \/ \E n \in Nodes : DelRenderableCall(n, 4, FALSE)
    \/ \E n \in Nodes : UpdateAbsModelMatrixCall(n, Segv(Unset))

SpecDirty == Init /\ [][NextDirty]_vars

\* C4: bound dirtiness reaches the ancestors: when a node with drawables recomputes its
\* bound, the result encloses the bound of every drawable its bound-tracking children
\* hold now, also when the node's own flag had been cleared before the child changed.
C4_AncestorBoundReflectsChild ==
    \A n \in Nodes :
        LET h == UpdateAbsModelMatrix(Heap, n, Segv(Unset)) IN
        (Ok(h) /\ pos_aabb_os_[n] # <<>> /\ Len(renderables_[n]) > 0)
        => \A c \in TrackedChildren(n) : \A k \in 1..Len(renderables_[c]) :
               BoxEncloses(h.os[n][1], PosBound(renderables_[c][k]))

\* the heaps left by the calls that change the child list or the drawable list of n
ListChanges(n) ==
    {h \in {AddChild(Heap, n, node) : node \in Nodes}
            \cup {RemoveChild(Heap, n, node) : node \in Nodes}
            \cup {ClearChildren(Heap, n)}
            \cup {AddRenderable(Heap, n, r) : r \in {2, 4}}
            \cup {DelRenderable(Heap, n, r, FALSE) : r \in {2, 4}}
            \cup {OnAttachRenderable(Heap, n, FALSE, Segv(Unset))} :
        Ok(h) /\ (h.children[n] # children_[n] \/ h.rend[n] # renderables_[n])}

\* C6: after a change of a node's child list or drawable list, the next bound
\* recomputation request on the node (UpdatePosBound through UpdateAbsModelMatrix)
\* recomputes the local bound once and clears the dirty flag; a request on a node that
\* was not changed since the last one does not recompute and leaves the cached bound as
\* it is; the flag is never left set by a request.
C6_RecomputeOnceThenCached ==
    \A n \in Nodes :
        /\ \A h1 \in ListChanges(n) :
               LET h2 == UpdateAbsModelMatrix(h1, n, Segv(Unset)) IN
               (Ok(h2) /\ h1.ws[n] # <<>> /\ Len(h1.rend[n]) > 0)
               => (h2.recomputed[n] = 1 /\ ~h2.dirty[n])
        /\ LET h == UpdateAbsModelMatrix(Heap, n, Segv(Unset)) IN
           (Ok(h) /\ pos_aabb_ws_[n] # <<>> /\ Len(renderables_[n]) > 0)
           => /\ ~h.dirty[n]
              /\ h.recomputed[n] <= 1
              /\ (~pos_aabb_dirty_[n] => (h.recomputed[n] = 0 /\ h.os[n] = pos_aabb_os_[n]))

(***************************************************************************)
(* Scenario: plain nodes and a node built around drawable 4, linked by     *)
(* AddChild in any way, children removed, sub-nodes expanded again,        *)
(* sub-trees searched.                                                     *)
(***************************************************************************)
NextTree ==
    \/ num_nodes < MaxTreeNodes /\ NewNodeCall(0, Segv(Box(0, 0)))
    \/ num_nodes + 2 <= MaxTreeNodes /\ NewNodeRenderableCall(4, 0, Segv(Box(0, 0)))
    \/ \E n \in Nodes, node \in Nodes :
           Len(children_[n]) < MaxSiblings /\ AddChildCall(n, node)
    \/ \E n \in Nodes, node \in Nodes : RemoveChildCall(n, node)
    \/ \E n \in Nodes : ClearChildrenCall(n)
    \/ \E n \in Nodes : OnAttachRenderableCall(n, FALSE, Segv(Box(0, 0)))
                        /\ num_nodes' <= MaxTreeNodes
    \/ \E n \in Nodes, node \in Nodes : IsNodeInSubTreeCall(n, node)

SpecTree == Init /\ [][NextTree]_vars

\* the places (parent, index) where node sits in a child list
ChildSlots(node) ==
    {<<m, i>> \in Nodes \X (1..MaxChildren) :
        i <= Len(children_[m]) /\ children_[m][i] = node}

RECURSIVE Descendants(_, _)
\* the nodes reached from n along child lists in 1..d steps
Descendants(n, d) ==
    IF d = 0 THEN {}
    ELSE LET kids == {children_[n][i] : i \in 1..Len(children_[n])} \ {Null}
         IN kids \cup UNION {Descendants(c, d - 1) : c \in kids}

\* C7: a node appears in the child list of at most one parent, and at most once in it.
C7_OneParentOneSlot ==
    \A node \in Nodes : Cardinality(ChildSlots(node)) <= 1

\* C8: the child relation has no cycle (no node is its own child or descendant), and so
\* IsNodeInSubTree never runs into unbounded recursion.
C8_NoCycle ==
    /\ \A n \in Nodes : n \notin Descendants(n, MaxNodes)
    /\ status # "stack_overflow"

(***************************************************************************)
(* Scenario: nodes with and without drawables and children, asked for      *)
(* their per-drawable flags and for list elements at any index, in builds  *)
(* with and without assertions.                                            *)
(***************************************************************************)
\* the reads of a slot past the end of a list: a fault, or whatever the memory holds
FlagReads == {Segv(FALSE), Read(FALSE, FALSE), Read(FALSE, TRUE)}
PtrReads == {Segv(Null), Read(FALSE, Null), Read(FALSE, 2)}

NextQuery ==
    \/ num_nodes < MaxBoundNodes /\ NewNodeCall(0, Segv(Box(0, 0)))
    \/ \E n \in Nodes, node \in Nodes : n < node /\ ~IsChild(node) /\ AddChildCall(n, node)
    \/ \E n \in Nodes, renderable \in {2, 4} : AddRenderableCall(n, renderable)
    \/ \E n \in Nodes, q \in Queries, v \in FlagReads : QueryCall(n, q, v)
    \/ \E n \in Nodes, i \in 0..MaxChildren, asserts \in BOOLEAN, v \in PtrReads :
           GetChildNodeCall(n, i, asserts, v)
    \/ \E n \in Nodes, i \in 0..MaxRenderables, v \in PtrReads : GetRenderableCall(n, i, v)
    \/ \E n \in Nodes, v \in PtrReads : GetRenderable0Call(n, v)

SpecQuery == Init /\ [][NextQuery]_vars

\* C9: on a node with zero drawables every per-drawable boolean query returns false and
\* does not fail.
C9_EmptyNodeQueriesFalse ==
    \A n \in Nodes, q \in Queries, v \in FlagReads :
        Len(renderables_[n]) = 0
        => LET h == Query(Heap, n, q, v) IN Ok(h) /\ h.ret = FALSE

\* C10: GetChildNode(i), GetRenderable(i) and GetRenderable() fail with an out-of-bounds
\* condition when the index is not less than the size of the list they index.
C10_IndexPastEndFails ==
    \A n \in Nodes, v \in PtrReads :
        /\ \A i \in 0..MaxChildren, asserts \in BOOLEAN :
               ~(i < Len(children_[n]))
               => GetChildNode(Heap, n, i, asserts, v).status = "out_of_bounds"
        /\ \A i \in 0..MaxRenderables :
               ~(i < Len(renderables_[n]))
               => GetRenderable(Heap, n, i, v).status = "out_of_bounds"
        /\ Len(renderables_[n]) = 0
           => GetRenderable0(Heap, n, v).status = "out_of_bounds"

(***************************************************************************)
(* Scenario: named nodes linked into a forest by AddChild (a node is added *)
(* to one older node, once), renamed, and searched by name.                *)
(***************************************************************************)
Names == {"A", "B"}

NextFind ==
    \/ \E name \in Names :
           num_nodes < MaxFindNodes /\ NewNodeNamedCall(name, 0, Segv(Box(0, 0)))
    \/ \E n \in Nodes, node \in Nodes : n < node /\ ~IsChild(node) /\ AddChildCall(n, node)
    \/ \E n \in Nodes, name \in Names : NameCall(n, name)
    \/ \E n \in Nodes, name \in Names : FindFirstNodeCall(n, name)
    \/ \E n \in Nodes, name \in Names : FindAllNodeCall(n, name)

SpecFind == Init /\ [][NextFind]_vars

RECURSIVE PreOrder(_, _)
RECURSIVE PreOrderOfChildren(_, _, _)
\* the depth-first pre-order of the subtree of n, d levels deep: n, then the subtree of
\* each child in child-list order
PreOrder(n, d) == <<n>> \o (IF d = 0 THEN <<>> ELSE PreOrderOfChildren(n, 1, d))
PreOrderOfChildren(n, k, d) ==
    IF k > Len(children_[n]) THEN <<>>
    ELSE PreOrder(children_[n][k], d - 1) \o PreOrderOfChildren(n, k + 1, d)

\* the nodes named name in pre-order of the subtree of n
NamedInPreOrder(n, name) ==
    LET named(m) == name_[m] = name IN SelectSeq(PreOrder(n, MaxNodes), named)

\* C11: FindAllNode(name) returns exactly the nodes of the subtree of self named name,
\* each once, in depth-first pre-order; FindFirstNode(name) returns the first of them,
\* and null exactly when there is none.
C11_FindInPreOrder ==
    \A n \in Nodes, name \in Names :
        LET all == FindAllNode(Heap, n, name)
            first == FindFirstNode(Heap, n, name)
            found == all.ret_nodes
        IN /\ Ok(all) /\ Ok(first)
           /\ {found[i] : i \in 1..Len(found)}
                  = {m \in {n} \cup Descendants(n, MaxNodes) : name_[m] = name}
           /\ \A i, j \in 1..Len(found) : found[i] = found[j] => i = j
           /\ found = NamedInPreOrder(n, name)
           /\ first.ret_ptr = (IF found = <<>> THEN Null ELSE found[1])

\* C11 witness: the tree A -> B -> A searched for "A" from its root: both nodes named A,
\* the root first.
C11_Witness ==
    /\ num_nodes >= 3
    /\ name_[1] = "A" /\ name_[2] = "B" /\ name_[3] = "A"
    /\ children_[1] = <<2>> /\ children_[2] = <<3>>
    /\ ret_nodes = <<1, 3>>

\* the nodes of the subtree of n at most d levels below n
NodesWithin(n, d) == {n} \cup Descendants(n, d)

\* the depth of m in the subtree of n
Depth(n, m) == CHOOSE d \in 0..MaxNodes :
                   m \in NodesWithin(n, d) /\ \A e \in 0..(d - 1) : m \notin NodesWithin(n, e)

\* C12 as stated: the node FindFirstNode(name) returns is a shallowest match: no node of
\* the subtree with that name has a smaller depth.
C12_ShallowestMatch ==
    \A n \in Nodes, name \in Names :
        LET h == FindFirstNode(Heap, n, name) IN
        (Ok(h) /\ h.ret_ptr # Null)
        => \A m \in NodesWithin(n, MaxNodes) :
               name_[m] = name => Depth(n, h.ret_ptr) <= Depth(n, m)

\* C12 amended: the node FindFirstNode(name) returns is the first match in depth-first
\* pre-order: it has that name and no node before it in the pre-order of the subtree has.
C12_FirstInPreOrder ==
    \A n \in Nodes, name \in Names :
        LET h == FindFirstNode(Heap, n, name)
            order == PreOrder(n, MaxNodes)
        IN (Ok(h) /\ h.ret_ptr # Null)
           => /\ name_[h.ret_ptr] = name
              /\ \E i \in 1..Len(order) :
                     /\ order[i] = h.ret_ptr
                     /\ \A j \in 1..(i - 1) : name_[order[j]] # name

\* C12 witness: root B with children (B with child A) and A, searched for "A" from the
\* root: the grandchild, first in pre-order, was returned although the second child is
\* shallower.
C12_Witness ==
    /\ num_nodes = 4
    /\ name_[1] = "B" /\ name_[2] = "B" /\ name_[3] = "A" /\ name_[4] = "A"
    /\ children_[1] = <<2, 4>> /\ children_[2] = <<3>>
    /\ ret_ptr = 3

(***************************************************************************)
(* SceneManager: visibility test, render queue, frame and update thread.   *)
(* Update() runs one frame through Idle, BackgroundUpdate,                 *)
(* ForegroundPropagate, Cull, Bucket, Flush and back to Idle; each action  *)
(* below ends the state the frame is in.  The update thread waits on its   *)
(* wait condition with update_mutex_ and holds the mutex during a tick;    *)
(* the frame holds it from foreground propagation to the end of the flush. *)
(***************************************************************************)
BO_No == "BO_No"
BO_Partial == "BO_Partial"
BO_Yes == "BO_Yes"

\* SceneManager::AABBVisible against frustum f (an interval)
AABBVisible(f, aabb) ==
    IF aabb.hi < f.lo \/ f.hi < aabb.lo THEN BO_No
    ELSE IF BoxEncloses(f, aabb) THEN BO_Yes
    ELSE BO_Partial

\* SceneNode::VisibleMark(vm), in the record c of the culling pass (mark, tests)
VisibleMark(c, n, vm) == [c EXCEPT !.mark[n] = vm]

RECURSIVE MarkSubtree(_, _, _, _)
RECURSIVE MarkChildren(_, _, _, _, _)
\* the outcome vm is given to the children of n from index k, and to their subtrees
MarkChildren(c, h, n, k, vm) ==
    IF k > Len(h.children[n]) THEN c
    ELSE MarkChildren(MarkSubtree(c, h, h.children[n][k], vm), h, n, k + 1, vm)

\* the outcome vm is given to n and to every descendant, none of them tested
MarkSubtree(c, h, n, vm) == MarkChildren(VisibleMark(c, n, vm), h, n, 1, vm)

RECURSIVE VisibleTestFromParent(_, _, _, _)
RECURSIVE VisibleTestChildren(_, _, _, _, _)
\* each child of n, from index k, is tested on its own
VisibleTestChildren(c, h, n, k, f) ==
    IF k > Len(h.children[n]) THEN c
    ELSE VisibleTestChildren(VisibleTestFromParent(c, h, h.children[n][k], f), h, n, k + 1, f)

\* the visibility test that tests every node reached, whatever the outcome of its parent
VisibleTestFromParent_TestAll(c, h, n, f) ==
    IF ~HasAttrib(h.attrib[n], SOA_Cullable)
    THEN VisibleTestChildren(VisibleMark(c, n, BO_Yes), h, n, 1, f)
    ELSE LET bo == AABBVisible(f, h.ws[n][1])
             c1 == [VisibleMark(c, n, bo) EXCEPT !.tests[n] = @ + 1]
         IN VisibleTestChildren(c1, h, n, 1, f)

\* SceneManager::VisibleTestFromParent: a node that is not cullable is visible and its
\* children are tested; a cullable node's world bound is tested, no-overlap and
\* full-overlap go to the whole subtree untested, partial-overlap tests each child.
VisibleTestFromParent(c, h, n, f) ==
    IF ~HasAttrib(h.attrib[n], SOA_Cullable)
    THEN VisibleTestChildren(VisibleMark(c, n, BO_Yes), h, n, 1, f)
    ELSE LET bo == AABBVisible(f, h.ws[n][1])
             c1 == [VisibleMark(c, n, bo) EXCEPT !.tests[n] = @ + 1]
         IN IF bo = BO_Partial
            THEN VisibleTestChildren(c1, h, n, 1, f)
            ELSE MarkSubtree(c1, h, n, bo)

RECURSIVE VisibleTestRoots(_, _, _, _)
\* the culling pass over the root nodes of the registry, in registry order
VisibleTestRoots(c, h, roots, f) ==
    IF roots = <<>> THEN c
    ELSE VisibleTestRoots(VisibleTestFromParent(c, h, Head(roots), f), h, Tail(roots), f)

\* the marks and test counts at the start of a culling pass
NoMarks == [mark |-> [n \in NodeIds |-> BO_No], tests |-> [n \in NodeIds |-> 0]]

RECURSIVE SubtreesInPreOrder(_)
\* the nodes of the registered root subtrees, depth-first
SubtreesInPreOrder(roots) ==
    IF roots = <<>> THEN <<>>
    ELSE PreOrder(Head(roots), MaxNodes) \o SubtreesInPreOrder(Tail(roots))

\* Renderable::GetRenderTechnique: drawables 1 and 3 share a technique, 2 and 4 the other
Technique(r) == IF r \in {1, 3} THEN 1 ELSE 2

RECURSIVE VisibleRenderables(_, _, _)
\* the drawables of the nodes of `order` that are marked visible, in order
VisibleRenderables(h, mark, order) ==
    IF order = <<>> THEN <<>>
    ELSE (IF mark[Head(order)] # BO_No THEN h.rend[Head(order)] ELSE <<>>)
         \o VisibleRenderables(h, mark, Tail(order))

\* index of the bucket of technique t in queue q, 0 when there is none
BucketOf(q, t) ==
    IF \E i \in 1..Len(q) : q[i].tech = t THEN CHOOSE i \in 1..Len(q) : q[i].tech = t ELSE 0

\* a drawable put into a bucket of its own at the head of the queue
AddToRenderQueue_Front(q, r) == <<[tech |-> Technique(r), items |-> <<r>>]>> \o q

\* Flush: drawable r is appended to the bucket of its technique; a technique met for the
\* first time gets a new bucket at the end of the queue
AddToRenderQueue(q, r) ==
    LET i == BucketOf(q, Technique(r)) IN
    IF i # 0 THEN [q EXCEPT ![i].items = Append(@, r)]
    ELSE Append(q, [tech |-> Technique(r), items |-> <<r>>])

RECURSIVE QueueRenderables(_, _)
QueueRenderables(q, rs) ==
    IF rs = <<>> THEN q ELSE QueueRenderables(AddToRenderQueue(q, Head(rs)), Tail(rs))

\* render_queue_ is cleared before it is rebuilt
ClearRenderQueue(q) == <<>>

\* Flush, first half: the render queue of the nodes marked visible in this pass
BuildRenderQueue(q, h, mark, roots) ==
    QueueRenderables(ClearRenderQueue(q), VisibleRenderables(h, mark, SubtreesInPreOrder(roots)))

RECURSIVE PropagateNodes(_, _, _, _)
\* foreground propagation: MainThreadUpdate and UpdateAbsModelMatrix on the nodes of
\* `order`, parents before children
PropagateNodes(h, order, hw, g) ==
    IF ~Ok(h) \/ order = <<>> THEN h
    ELSE PropagateNodes(
             UpdateAbsModelMatrix(MainThreadUpdate(h, Head(order), hw, g), Head(order), g),
             Tail(order), hw, g)

\* SceneNode::SubThreadUpdate: the node whose callback runs, Null when none is bound
SubThreadUpdate(func, n) == IF func[n] THEN n ELSE Null

\* the main thread is between two frames and the update thread is not in a tick
Quiet == status = "ok" /\ frame_state = "Idle" /\ update_mutex_ = "free"

\* SceneManager::AddSceneNodeLocked from the main thread
AddSceneNodeCall(n) == Quiet /\ Commit(AddSceneNodeLocked(Heap, n))

\* SceneNode::BindSubThreadUpdateFunc
BindSubThreadUpdateFuncCall(n) ==
    /\ Quiet
    /\ ~sub_thread_update_func_[n]
    /\ sub_thread_update_func_' = [sub_thread_update_func_ EXCEPT ![n] = TRUE]
    /\ UNCHANGED <<node_vars, visible_mark_, frame_state, suspended, update_mutex_, quit_,
                   update_thread_, tick_pending, running, frustum_, bound_tests,
                   render_queue_, submitted>>

\* Suspend() that sets the flag without waiting for the tick in progress
Suspend_NoWait ==
    /\ status = "ok" /\ frame_state = "Idle"
    /\ ~suspended
    /\ suspended' = TRUE
    /\ UNCHANGED <<node_vars, sub_thread_update_func_, visible_mark_, frame_state,
                   update_mutex_, quit_, update_thread_, tick_pending, running, frustum_,
                   bound_tests, render_queue_, submitted>>

\* SceneManager::Suspend: returns once the update thread is out of its tick (the mutex is
\* taken to set the flag and released)
Suspend ==
    /\ status = "ok" /\ frame_state = "Idle"
    /\ ~suspended
    /\ update_mutex_ = "free"
    /\ suspended' = TRUE
    /\ UNCHANGED <<node_vars, sub_thread_update_func_, visible_mark_, frame_state,
                   update_mutex_, quit_, update_thread_, tick_pending, running, frustum_,
                   bound_tests, render_queue_, submitted>>

\* SceneManager::Resume
Resume ==
    /\ status = "ok" /\ frame_state = "Idle"
    /\ suspended
    /\ suspended' = FALSE
    /\ UNCHANGED <<node_vars, sub_thread_update_func_, visible_mark_, frame_state,
                   update_mutex_, quit_, update_thread_, tick_pending, running, frustum_,
                   bound_tests, render_queue_, submitted>>

\* ~SceneManager, first step: the update thread is requested to quit
RequestQuit ==
    /\ status = "ok" /\ frame_state = "Idle"
    /\ ~quit_
    /\ quit_' = TRUE
    /\ UNCHANGED <<node_vars, sub_thread_update_func_, visible_mark_, frame_state, suspended,
                   update_mutex_, update_thread_, tick_pending, running, frustum_,
                   bound_tests, render_queue_, submitted>>

\* UpdateThreadFunc: the wait condition is passed (not quit, not suspended, checked with
\* the mutex held) and a tick begins over the registered subtrees
TickBegin ==
    /\ status = "ok"
    /\ update_thread_ = "wait"
    /\ ~quit_ /\ ~suspended
    /\ update_mutex_ = "free"
    /\ update_mutex_' = "update_thread"
    /\ update_thread_' = "tick"
    /\ tick_pending' = SubtreesInPreOrder(scene_nodes_)
    /\ UNCHANGED <<node_vars, sub_thread_update_func_, visible_mark_, frame_state, suspended,
                   quit_, running, frustum_, bound_tests, render_queue_, submitted>>

\* UpdateThreadFunc: SubThreadUpdate of the next node of the tick is called
SubThreadUpdateCall ==
    /\ update_thread_ = "tick"
    /\ running = Null
    /\ tick_pending # <<>>
    /\ running' = SubThreadUpdate(sub_thread_update_func_, Head(tick_pending))
    /\ tick_pending' = Tail(tick_pending)
    /\ UNCHANGED <<node_vars, sub_thread_update_func_, visible_mark_, frame_state, suspended,
                   update_mutex_, quit_, update_thread_, frustum_, bound_tests,
                   render_queue_, submitted>>

\* the background callback returns
CallbackReturn ==
    /\ running # Null
    /\ running' = Null
    /\ UNCHANGED <<node_vars, sub_thread_update_func_, visible_mark_, frame_state, suspended,
                   update_mutex_, quit_, update_thread_, tick_pending, frustum_,
                   bound_tests, render_queue_, submitted>>

\* UpdateThreadFunc: the tick is complete, the mutex released, completion signalled
TickEnd ==
    /\ update_thread_ = "tick"
    /\ running = Null
    /\ tick_pending = <<>>
    /\ update_thread_' = "wait"
    /\ update_mutex_' = IF update_mutex_ = "update_thread" THEN "free" ELSE update_mutex_
    /\ UNCHANGED <<node_vars, sub_thread_update_func_, visible_mark_, frame_state, suspended,
                   quit_, tick_pending, running, frustum_, bound_tests, render_queue_,
                   submitted>>

\* Update(): a frame begins
UpdateBegin ==
    /\ status = "ok" /\ frame_state = "Idle"
    /\ frame_state' = "BackgroundUpdate"
    /\ UNCHANGED <<node_vars, sub_thread_update_func_, visible_mark_, suspended,
                   update_mutex_, quit_, update_thread_, tick_pending, running, frustum_,
                   bound_tests, render_queue_, submitted>>

\* Update() that goes on to the foreground without waiting for the update thread
UpdateJoin_NoBarrier ==
    /\ status = "ok" /\ frame_state = "BackgroundUpdate"
    /\ frame_state' = "ForegroundPropagate"
    /\ update_mutex_' = "main"
    /\ UNCHANGED <<node_vars, sub_thread_update_func_, visible_mark_, suspended, quit_,
                   update_thread_, tick_pending, running, frustum_, bound_tests,
                   render_queue_, submitted>>

\* Update(): the barrier between the background pass and the foreground: the mutex is
\* taken once the update thread is out of its tick
UpdateJoin ==
    /\ status = "ok" /\ frame_state = "BackgroundUpdate"
    /\ update_mutex_ = "free"
    /\ frame_state' = "ForegroundPropagate"
    /\ update_mutex_' = "main"
    /\ UNCHANGED <<node_vars, sub_thread_update_func_, visible_mark_, suspended, quit_,
                   update_thread_, tick_pending, running, frustum_, bound_tests,
                   render_queue_, submitted>>

\* Update(): foreground propagation from every root
UpdatePropagate(g) ==
    /\ frame_state = "ForegroundPropagate"
    /\ Store(PropagateNodes(Heap, SubtreesInPreOrder(scene_nodes_), hw_ready, g))
    /\ frame_state' = "Cull"
    /\ UNCHANGED <<sub_thread_update_func_, visible_mark_, suspended, update_mutex_, quit_,
                   update_thread_, tick_pending, running, frustum_, bound_tests,
                   render_queue_, submitted>>

\* Update(): the culling pass against the camera's frustum f
UpdateCull(f) ==
    /\ status = "ok" /\ frame_state = "Cull"
    /\ LET c == VisibleTestRoots(NoMarks, Heap, scene_nodes_, f) IN
       /\ visible_mark_' = c.mark
       /\ bound_tests' = c.tests
    /\ frustum_' = f
    /\ frame_state' = "Bucket"
    /\ UNCHANGED <<node_vars, sub_thread_update_func_, suspended, update_mutex_, quit_,
                   update_thread_, tick_pending, running, render_queue_, submitted>>

\* Flush(), first half: the render queue is rebuilt from the visible nodes
FlushBucket ==
    /\ status = "ok" /\ frame_state = "Bucket"
    /\ render_queue_' = BuildRenderQueue(render_queue_, Heap, visible_mark_, scene_nodes_)
    /\ frame_state' = "Flush"
    /\ UNCHANGED <<node_vars, sub_thread_update_func_, visible_mark_, suspended,
                   update_mutex_, quit_, update_thread_, tick_pending, running, frustum_,
                   bound_tests, submitted>>

\* Flush(), second half: the buckets are handed to the renderer in queue order; the frame
\* ends
FlushSubmit ==
    /\ status = "ok" /\ frame_state = "Flush"
    /\ submitted' = [i \in 1..Len(render_queue_) |-> render_queue_[i].items]
    /\ frame_state' = "Idle"
    /\ update_mutex_' = "free"
    /\ UNCHANGED <<node_vars, sub_thread_update_func_, visible_mark_, suspended, quit_,
                   update_thread_, tick_pending, running, frustum_, bound_tests,
                   render_queue_>>

\* the frustums of the scenarios
Frustums == {Box(-1, 2), Box(0, 1), Box(4, 8)}

\* the next step of the frame
FrameStep ==
    \/ UpdateBegin
    \/ UpdateJoin
    \/ UpdatePropagate(Segv(Unset))
    \/ \E f \in Frustums : UpdateCull(f)
    \/ FlushBucket
    \/ FlushSubmit

(***************************************************************************)
(* Scenario: a scene of plain nodes with background callbacks, the update  *)
(* thread ticking, the main thread running frames, suspending and          *)
(* resuming.                                                               *)
(***************************************************************************)
MaxThreadNodes == 2

NextThread ==
    \/ num_nodes < MaxThreadNodes /\ Quiet /\ NewNodeCall(0, Segv(Unset))
    \/ \E n \in Nodes, node \in Nodes :
           /\ Quiet /\ n < node /\ ~IsChild(node) /\ Find(scene_nodes_, node) = 0
           /\ AddChildCall(n, node)
    \/ \E n \in Nodes : ~IsChild(n) /\ Find(scene_nodes_, n) = 0 /\ AddSceneNodeCall(n)
    \/ \E n \in Nodes : BindSubThreadUpdateFuncCall(n)
    \/ Suspend
    \/ Resume
    \/ RequestQuit
    \/ TickBegin
    \/ SubThreadUpdateCall
    \/ CallbackReturn
    \/ TickEnd
    \/ FrameStep

SpecThread == Init /\ [][NextThread]_vars

MaxCullNodes == 2

\* a translation that moves every drawable's bound away from the origin
Far == Mat(1, 5)

\* the scene is being built: the main thread is between frames and no frame has culled yet
Building == Quiet /\ frustum_ = Box(0, 0)

NextCull ==
    \/ \E attrib \in {0, SOA_Cullable} :
           num_nodes < MaxCullNodes /\ Building /\ NewNodeCall(attrib, Segv(Unset))
    \/ \E n \in Nodes, r \in {2, 3} :
           Building /\ Len(renderables_[n]) = r - 2 /\ AddRenderableCall(n, r)
    \/ \E n \in Nodes, node \in Nodes :
           /\ Building /\ n < node /\ ~IsChild(node) /\ Find(scene_nodes_, node) = 0
           /\ AddChildCall(n, node)
    \/ \E n \in Nodes, node \in Nodes :
           /\ Building /\ Find(children_[n], node) # 0 /\ parent_[node] = Null
           /\ ParentCall(node, n)
    \/ \E n \in Nodes :
           /\ Building /\ \A m \in Nodes : model_[m] = Identity
           /\ ModelMatrixCall(n, Far)
    \/ \E n \in Nodes :
           /\ Building /\ ~IsChild(n) /\ Find(scene_nodes_, n) = 0
           /\ AddSceneNodeCall(n)
    \/ FrameStep

SpecCull == Init /\ [][NextCull]_vars

\* the nodes of the registered subtrees
SceneNodes == {m \in Nodes : Find(SubtreesInPreOrder(scene_nodes_), m) # 0}

\* the frame has culled: the marks and test counts are those of this frame's pass
Culled == status = "ok" /\ frame_state \in {"Bucket", "Flush"}

\* C15: after the culling pass, a node whose bound test returned full-overlap was tested
\* once, and each of its descendants has the full-overlap mark and was not tested: the
\* tests in the subtree are exactly one.
C15_FullOverlapNotRetested ==
    Culled =>
    \A n \in SceneNodes :
        (/\ HasAttrib(attrib_[n], SOA_Cullable)
         /\ bound_tests[n] > 0
         /\ AABBVisible(frustum_, pos_aabb_ws_[n][1]) = BO_Yes)
        => /\ bound_tests[n] = 1
           /\ visible_mark_[n] = BO_Yes
           /\ \A m \in Descendants(n, MaxNodes) :
                  visible_mark_[m] = BO_Yes /\ bound_tests[m] = 0

\* C15 witness: the culling pass found a cullable root fully inside the frustum; its
\* cullable child, whose bound is not inside the frustum, got the mark untested.
C15_Witness ==
    /\ Culled
    /\ \E n \in SceneNodes, m \in SceneNodes :
           /\ m \in Descendants(n, MaxNodes)
           /\ HasAttrib(attrib_[n], SOA_Cullable) /\ HasAttrib(attrib_[m], SOA_Cullable)
           /\ bound_tests[n] = 1 /\ bound_tests[m] = 0
           /\ visible_mark_[n] = BO_Yes /\ visible_mark_[m] = BO_Yes
           /\ AABBVisible(frustum_, pos_aabb_ws_[m][1]) # BO_Yes

RECURSIVE NumEntries(_)
\* the number of entries of render queue q
NumEntries(q) == IF q = <<>> THEN 0 ELSE Len(Head(q).items) + NumEntries(Tail(q))

\* the nodes of `order` outside the set `nodes`
Outside(order, nodes) == LET out(m) == m \notin nodes IN SelectSeq(order, out)

\* C16: after the culling pass, a cullable node whose world bound lies entirely outside
\* the frustum has the no-overlap mark, its descendants have it too and were not tested,
\* and the flush's queue holds no entry of the node or its subtree.
C16_OutsideIsCulled ==
    Culled =>
    \A n \in SceneNodes :
        (/\ HasAttrib(attrib_[n], SOA_Cullable)
         /\ AABBVisible(frustum_, pos_aabb_ws_[n][1]) = BO_No)
        => /\ visible_mark_[n] = BO_No
           /\ \A m \in Descendants(n, MaxNodes) :
                  visible_mark_[m] = BO_No /\ bound_tests[m] = 0
           /\ frame_state = "Flush"
              => NumEntries(render_queue_) =
                     Len(VisibleRenderables(Heap, visible_mark_,
                             Outside(SubtreesInPreOrder(scene_nodes_),
                                     NodesWithin(n, MaxNodes))))

\* the drawables of the nodes marked visible, in the order the flush meets them
VisibleDrawables == VisibleRenderables(Heap, visible_mark_, SubtreesInPreOrder(scene_nodes_))

RECURSIVE FirstEncountered(_, _)
\* the techniques of drawables rs in the order of their first occurrence, after `seen`
FirstEncountered(rs, seen) ==
    IF rs = <<>> THEN <<>>
    ELSE IF Technique(Head(rs)) \in seen THEN FirstEncountered(Tail(rs), seen)
    ELSE <<Technique(Head(rs))>>
         \o FirstEncountered(Tail(rs), seen \cup {Technique(Head(rs))})

MaxAttachNodes == 2

NextAttach ==
    \/ num_nodes < MaxAttachNodes /\ NewNodeCall(SOA_Cullable, Segv(Unset))
    \/ \E n \in Nodes, node \in Nodes : n < node /\ ~IsChild(node) /\ AddChildCall(n, node)
    \/ \E n \in Nodes, node \in Nodes : RemoveChildCall(n, node)
    \/ \E n \in Nodes : renderables_[n] = <<>> /\ AddRenderableCall(n, 2)
    \/ \E n \in Nodes, renderable \in {2, 4}, asserts \in BOOLEAN :
           DelRenderableCall(n, renderable, asserts)
    \/ \E n \in Nodes : UpdateAbsModelMatrixCall(n, Segv(Unset))

SpecAttach == Init /\ [][NextAttach]_vars

(***************************************************************************)
(* Scenario: nodes whose drawables are attached and detached, become ready *)
(* and are expanded by MainThreadUpdate.                                   *)
(***************************************************************************)
MaxReadyNodes == 2

NextReady ==
    \/ num_nodes < MaxReadyNodes /\ NewNodeCall(SOA_Cullable, Segv(Unset))
    \/ \E n \in Nodes, renderable \in {2, 4} :
           Find(renderables_[n], renderable) = 0 /\ AddRenderableCall(n, renderable)
    \/ \E n \in Nodes, renderable \in {2, 4}, asserts \in BOOLEAN :
           DelRenderableCall(n, renderable, asserts)
    \/ \E r \in {2, 4} : HWResourceLoaded(r)
    \/ \E n \in Nodes : MainThreadUpdateCall(n, Segv(Unset)) /\ num_nodes' <= MaxReadyNodes

SpecReady == Init /\ [][NextReady]_vars

\* C18: RemoveChild of a node that is not in the child list, and DelRenderable of a
\* drawable that is not attached, leave every field as it was: child list, drawable list,
\* readiness list, dirty flag and all the others.
C18_AbsentRemovalIsNoOp ==
    \A n \in Nodes :
        /\ \A node \in Nodes \cup {Null} :
               Find(children_[n], node) = 0 => RemoveChild(Heap, n, node) = Heap
        /\ \A r \in RenderableIds \cup {Null}, asserts \in BOOLEAN :
               Find(renderables_[n], r) = 0 => DelRenderable(Heap, n, r, asserts) = Heap

\* C18 witness: a node with a child, a drawable and a clear dirty flag, while another node
\* is not its child and another drawable is not attached to it.
C18_Witness ==
    \E n \in Nodes :
        /\ ~pos_aabb_dirty_[n]
        /\ children_[n] # <<>> /\ renderables_[n] # <<>>
        /\ \E node \in Nodes : Find(children_[n], node) = 0
        /\ \E r \in {2, 4} : Find(renderables_[n], r) = 0

\* C19: the drawable list and the ready-flag list of a node have the same length, and
\* DelRenderable of an attached drawable returns with the drawable and the flag of the same
\* index removed.
C19_FlagsFollowDrawables ==
    \A n \in Nodes :
        /\ Len(renderables_hw_res_ready_[n]) = Len(renderables_[n])
        /\ \A r \in RenderableIds, asserts \in BOOLEAN :
               LET i == Find(renderables_[n], r)
                   h == DelRenderable(Heap, n, r, asserts)
               IN i # 0 => /\ Ok(h)
                           /\ h.rend[n] = Erase(renderables_[n], i)
                           /\ h.ready[n] = Erase(renderables_hw_res_ready_[n], i)

\* C20: MainThreadUpdate returns true exactly when a drawable's flag went from not ready to
\* ready in the call; no flag that was set is reset by it, by AddRenderable, or by
\* DelRenderable for the drawables that stay; a call that returns false leaves the child
\* lists and the nodes as they were; and a second call right after returns false.
C20_RefreshOncePerDrawable ==
    \A n \in Nodes :
        LET h == MainThreadUpdate(Heap, n, hw_ready, Segv(Unset))
            was == renderables_hw_res_ready_[n]
        IN /\ Ok(h)
              => /\ h.ret = (\E i \in 1..Len(was) : ~was[i] /\ h.ready[n][i])
                 /\ h.rend[n] = renderables_[n]
                 /\ \A i \in 1..Len(was) : was[i] => h.ready[n][i]
                 /\ ~h.ret => h.children = children_ /\ h.n = num_nodes
                 /\ LET h2 == MainThreadUpdate(h, n, hw_ready, Segv(Unset)) IN
                    Ok(h2) => ~h2.ret /\ h2.children = h.children
           /\ \A r \in RenderableIds :
                  LET a == AddRenderable(Heap, n, r) IN
                  \A i \in 1..Len(was) : a.ready[n][i] = was[i]
           /\ \A r \in RenderableIds :
                  LET d == DelRenderable(Heap, n, r, FALSE)
                      at == Find(renderables_[n], r)
                  IN at # 0
                     => \A i \in 1..Len(was) :
                            /\ i < at => d.rend[n][i] = renderables_[n][i] /\ d.ready[n][i] = was[i]
                            /\ i > at => /\ d.rend[n][i - 1] = renderables_[n][i]
                                         /\ d.ready[n][i - 1] = was[i]

\* C20 witness: MainThreadUpdate returned true on a node whose drawable became ready, and
\* the drawable's sub-node was added.
C20_Witness ==
    /\ ret
    /\ \E n \in Nodes :
           /\ \E i \in 1..Len(renderables_[n]) :
                  renderables_[n][i] = 4 /\ renderables_hw_res_ready_[n][i]
           /\ \E k \in 1..Len(children_[n]) : renderables_[children_[n][k]] = <<3>>

(***************************************************************************)
(* Visibility attribute and render pass.                                   *)
(***************************************************************************)
\* attrib | bit
SetAttrib(attrib, bit) == IF HasAttrib(attrib, bit) THEN attrib ELSE attrib + bit
\* attrib & ~bit
ClearAttrib(attrib, bit) == IF HasAttrib(attrib, bit) THEN attrib - bit ELSE attrib

\* SceneNode::Visible() const
IsVisible(attrib) == ~HasAttrib(attrib, SOA_Invisible)

\* PassType and GetPassCategory: one pass type of each of three categories
PassTypes == {"PT_OpaqueGBuffer", "PT_GenShadowMap", "PT_OpaqueShading"}
PC_ShadowMap == "PC_ShadowMap"
GetPassCategory(type) ==
    CASE type = "PT_GenShadowMap" -> PC_ShadowMap
      [] type = "PT_OpaqueGBuffer" -> "PC_GBuffer"
      [] OTHER -> "PC_Shading"

RECURSIVE VisibleFrom(_, _, _, _)
RECURSIVE VisibleChildren(_, _, _, _, _)

\* the loop of SceneNode::Visible(bool) over children_, from 1-based index k
VisibleChildren(h, n, vis, k, stack) ==
    IF ~Ok(h) \/ k > Len(h.children[n]) THEN h
    ELSE IF h.children[n][k] = Null THEN Fail(h, "segv")
    ELSE VisibleChildren(VisibleFrom(h, h.children[n][k], vis, stack), n, vis, k + 1, stack)

\* Visible(bool) that sets the bit of this node only
VisibleFrom_NoDescent(h, n, vis, stack) ==
    IF ~Ok(h) THEN h
    ELSE [h EXCEPT !.attrib[n] = IF vis THEN ClearAttrib(@, SOA_Invisible)
                                        ELSE SetAttrib(@, SOA_Invisible)]

\* SceneNode::Visible(bool), called with `stack` running.  A node that is reached again
\* while its own call runs repeats the same descent: the recursion does not end.
VisibleFrom(h, n, vis, stack) ==
    IF ~Ok(h) THEN h
    ELSE IF n \in stack THEN Fail(h, "stack_overflow")
    ELSE VisibleChildren(
             [h EXCEPT !.attrib[n] = IF vis THEN ClearAttrib(@, SOA_Invisible)
                                            ELSE SetAttrib(@, SOA_Invisible)],
             n, vis, 1, stack \cup {n})

\* SceneNode::Visible(bool)
Visible(h, n, vis) == VisibleFrom(h, n, vis, {})

RECURSIVE PassRenderables(_, _, _, _)
\* the loop of SceneNode::Pass over renderables_, from 1-based index k
PassRenderables(h, n, type, k) ==
    IF ~Ok(h) \/ k > Len(h.rend[n]) THEN h
    ELSE IF h.rend[n][k] = Null THEN Fail(h, "segv")
    ELSE PassRenderables([h EXCEPT !.rpass[h.rend[n][k]] = type], n, type, k + 1)

\* SceneNode::Pass
Pass(h, n, type) ==
    LET h1 == PassRenderables(h, n, type, 1) IN
    IF ~Ok(h1) THEN h1
    ELSE IF HasAttrib(h1.attrib[n], SOA_NotCastShadow)
    THEN Visible(h1, n, PC_ShadowMap # GetPassCategory(type))
    ELSE h1

VisibleCall(n, vis) == Commit(Visible(Heap, n, vis))
PassCall(n, type) == Commit(Pass(Heap, n, type))

(***************************************************************************)
(* Scenario: the first node is given drawables with and without            *)
(* sub-drawables and plain nodes as children; nodes are hidden and shown   *)
(* and expanded into sub-nodes, registered with the scene manager or not.  *)
(***************************************************************************)
MaxSubNodes == 5

NextSub ==
    \/ num_nodes < MaxSubNodes - 2 /\ NewNodeCall(SOA_Cullable, Segv(Unset))
    \/ \E n \in Nodes, renderable \in {1, 2, 4} :
           /\ n = 1
           /\ \A k \in 1..Len(renderables_[n]) : renderables_[n][k] < renderable
           /\ AddRenderableCall(n, renderable)
    \/ \E n \in Nodes, node \in Nodes :
           n < node /\ ~IsChild(node) /\ children_[node] = <<>> /\ AddChildCall(n, node)
    \/ \E n \in Nodes, vis \in BOOLEAN : ~IsChild(n) /\ VisibleCall(n, vis)
    \/ \E n \in Nodes, add_to_scene \in BOOLEAN :
           /\ OnAttachRenderableCall(n, add_to_scene, Segv(Unset))
           /\ num_nodes' <= MaxSubNodes

SpecSub == Init /\ [][NextSub]_vars

RECURSIVE SubrenderablesOf(_)
\* the sub-drawables of the drawables rs, drawable by drawable, each in its own order
SubrenderablesOf(rs) ==
    IF rs = <<>> THEN <<>>
    ELSE (IF Head(rs) = Null THEN <<>> ELSE Subrenderables(Head(rs))) \o SubrenderablesOf(Tail(rs))

\* C21: OnAttachRenderable appends to the child list, for each attached drawable with
\* n > 0 sub-drawables, exactly n new nodes in sub-drawable order; the new child for
\* sub-drawable i holds that sub-drawable, has the attribute mask the node has at the call
\* and the node as its parent; the children the node had, and every other node, stay as
\* they were.
C21_OneChildPerSubrenderable ==
    \A n \in Nodes, add_to_scene \in BOOLEAN :
        LET h == OnAttachRenderable(Heap, n, add_to_scene, Segv(Unset))
            subs == SubrenderablesOf(renderables_[n])
            base == Len(children_[n])
        IN Ok(h)
           => /\ Len(h.children[n]) = base + Len(subs)
              /\ h.n = num_nodes + Len(subs)
              /\ \A i \in 1..base : h.children[n][i] = children_[n][i]
              /\ \A i \in 1..Len(subs) :
                     LET child == h.children[n][base + i] IN
                     /\ child = num_nodes + i
                     /\ h.rend[child] = <<subs[i]>>
                     /\ h.attrib[child] = attrib_[n]
                     /\ h.parent[child] = n
                     /\ h.children[child] = <<>>
              /\ \A m \in Nodes :
                     /\ h.attrib[m] = attrib_[m]
                     /\ h.parent[m] = parent_[m]
                     /\ h.rend[m] = renderables_[m]
                     /\ m # n => h.children[m] = children_[m]

\* C21 witness: a node hidden after its construction, holding a plain child and the
\* two-mesh drawable, was expanded: its child list is the plain child followed by a
\* sub-node for each mesh, in mesh order, each hidden like the node and parented to it.
C21_Witness ==
    \E n \in Nodes :
        /\ HasAttrib(attrib_[n], SOA_Invisible)
        /\ renderables_[n] = <<1>>
        /\ Len(children_[n]) = 3
        /\ renderables_[children_[n][1]] = <<>>
        /\ renderables_[children_[n][2]] = <<2>>
        /\ renderables_[children_[n][3]] = <<3>>
        /\ \A i \in {2, 3} : /\ attrib_[children_[n][i]] = attrib_[n]
                             /\ parent_[children_[n][i]] = n

\* C22: parent references agree with the child lists in every state: a node in the child
\* list of n has n as its parent, and a node in no child list has no parent; after
\* AddChild, RemoveChild, ClearChildren and OnAttachRenderable alike.
C22_ParentAgreesWithChildList ==
    \A c \in Nodes :
        /\ \A n \in Nodes : Find(children_[n], c) # 0 => parent_[c] = n
        /\ ~IsChild(c) => parent_[c] = Null

\* the frame has propagated the transforms and bounds top-down over the registered subtrees
Propagated == status = "ok" /\ frame_state \in {"Cull", "Bucket", "Flush"}

\* C23: after a top-down propagation pass over a subtree, the world bound of every
\* bound-tracking node encloses the world bound of each of its bound-tracking descendants,
\* whatever the descendants' local matrices are.  Stated for the nodes that hold a
\* drawable, whose bounds the pass assigns, in subtrees whose nodes were given their
\* parent with Parent().
C23_WorldBoundEnclosesDescendants ==
    Propagated =>
    \A n \in SceneNodes : \A m \in Descendants(n, MaxNodes) :
        (/\ pos_aabb_ws_[n] # <<>> /\ pos_aabb_ws_[m] # <<>>
         /\ renderables_[n] # <<>> /\ renderables_[m] # <<>>
         /\ \A c \in Descendants(n, MaxNodes) :
                parent_[c] # Null /\ Find(children_[parent_[c]], c) # 0)
        => BoxEncloses(pos_aabb_ws_[n][1], pos_aabb_ws_[m][1])

(***************************************************************************)
(* Scenario: a forest of nodes with and without the not-cast-shadow bit,   *)
(* the first holding a drawable, hidden and shown with Visible and taken   *)
(* through render passes.                                                  *)
(***************************************************************************)
MaxPassNodes == 3

NextPass ==
    \/ \E attrib \in {SOA_Cullable, SOA_NotCastShadow} :
           num_nodes < MaxPassNodes /\ NewNodeCall(attrib, Segv(Unset))
    \/ renderables_[1] = <<>> /\ num_nodes >= 1 /\ AddRenderableCall(1, 2)
    \/ \E n \in Nodes, node \in Nodes : n < node /\ ~IsChild(node) /\ AddChildCall(n, node)
    \/ \E n \in Nodes, vis \in BOOLEAN : VisibleCall(n, vis)
    \/ \E n \in Nodes, type \in PassTypes : PassCall(n, type)

SpecPass == Init /\ [][NextPass]_vars

\* attribute masks a and b differ at most in the invisible bit
SameButInvisible(a, b) == ClearAttrib(a, SOA_Invisible) = ClearAttrib(b, SOA_Invisible)

\* C24: Visible(v) makes Visible() equal v on the node and every descendant and changes no
\* other attribute bit; Pass(type) on a node with the not-cast-shadow bit does the same
\* with v = (the category of type is not shadow-map), so a subtree hidden by
\* Visible(false) is visible again after a non-shadow Pass; Pass on a node without the
\* bit leaves the masks of the node and its descendants as they were.
C24_VisibleAndPassOnSubtree ==
    \A n \in Nodes :
        /\ \A vis \in BOOLEAN :
               LET h == Visible(Heap, n, vis) IN
               /\ Ok(h)
               /\ \A m \in NodesWithin(n, MaxNodes) :
                      /\ IsVisible(h.attrib[m]) = vis
                      /\ SameButInvisible(h.attrib[m], attrib_[m])
        /\ \A type \in PassTypes :
               LET h == Pass(Heap, n, type)
                   hidden == Pass(Visible(Heap, n, FALSE), n, type)
               IN /\ Ok(h) /\ Ok(hidden)
                  /\ \A m \in NodesWithin(n, MaxNodes) :
                         IF HasAttrib(attrib_[n], SOA_NotCastShadow)
                         THEN /\ IsVisible(h.attrib[m]) = (GetPassCategory(type) # PC_ShadowMap)
                              /\ SameButInvisible(h.attrib[m], attrib_[m])
                              /\ GetPassCategory(type) # PC_ShadowMap
                                 => IsVisible(hidden.attrib[m])
                         ELSE h.attrib[m] = attrib_[m]

\* C24 witness: a shadow-map pass on a node with the not-cast-shadow bit, holding a
\* drawable, has hidden the node and its child, a cullable node without the bit, which
\* kept its cullable bit.
C24_Witness ==
    \E n \in Nodes, m \in Nodes :
        /\ Find(children_[n], m) # 0
        /\ renderables_[n] = <<2>> /\ rend_pass[2] = "PT_GenShadowMap"
        /\ attrib_[n] = SOA_NotCastShadow + SOA_Invisible
        /\ attrib_[m] = SOA_Cullable + SOA_Invisible

====
